---- MODULE Spec2Model ----
(***************************************************************************)
(* tomopy: the shared-array flat-field corrector                           *)
(* (algorithms/preprocess/normalize.py) and the entropy-guided rotation    *)
(* centre search (algorithms/recon/optimize_center.py).                    *)
(*                                                                         *)
(* Floating point values are modelled as exact rationals <<n, d>> in       *)
(* lowest terms with d > 0; the IEEE specials produced by a division by    *)
(* zero are <<1, 0>> (+inf), <<-1, 0>> (-inf) and <<0, 0>> (NaN).          *)
(* An absent optional value (None) is the empty set, a present one a       *)
(* singleton.                                                              *)
(***************************************************************************)
EXTENDS Integers, Sequences, FiniteSets, TLC

\* ------------------------------------------------------------------------
\* Bounds and input domains

\* number of projections, data.shape[0]
NumProj == 2
\* edge of the reconstructed image in pixels, data.shape[2]
ImgEdge == 2
\* function-evaluation budget of the Nelder-Mead minimizer
MaxFev == 3

Proj == 0 .. (NumProj - 1)
\* the [slices, pixels] positions of one projection
Pixels == {<<0, 0>>, <<0, 1>>}
Workers == {"w1", "w2"}
\* raw detector counts
DataVals == {1, 4}
\* <<white, dark>> calibration pairs of one pixel; <<1, 1>> is degenerate
Calibs == {<<2, 0>>, <<9, 1>>, <<1, 1>>}
Cutoffs == {1}

\* candidate centres, tolerances and mask ratios handed to optimize_center
Centers == {5, 6}
Tols == {-1, 0, 1}
Ratios == {0, 1, 2}
\* pixel intensities a reconstruction may hold
PixVals == {-4, 10}

\* ------------------------------------------------------------------------
\* float arithmetic

Abs(i) == IF i < 0 THEN -i ELSE i

Sign(i) == IF i > 0 THEN 1 ELSE IF i < 0 THEN -1 ELSE 0

RECURSIVE GCD(_, _)
GCD(a, b) == IF b = 0 THEN a ELSE GCD(b, a % b)

\* the rational n/d (d # 0) in lowest terms with a positive denominator
Rat(n, d) ==
    LET s == IF d < 0 THEN -1 ELSE 1
        g == GCD(Abs(n), Abs(d))
    IN  <<(s * n) \div g, (s * d) \div g>>

\* an integer as a float
Flt(i) == <<i, 1>>

IsFinite(a) == a[2] # 0

IsNaN(a) == a = <<0, 0>>

\* a - b, b finite
FSub(a, b) ==
    IF IsFinite(a) THEN Rat(a[1] * b[2] - b[1] * a[2], a[2] * b[2]) ELSE a

\* np.divide(a, b), b finite: x/0 is +-inf, 0/0 is NaN
FDiv(a, b) ==
    IF ~IsFinite(a) THEN (IF b[1] < 0 THEN <<-a[1], 0>> ELSE a)
    ELSE IF b[1] = 0 THEN <<Sign(a[1]), 0>>
    ELSE Rat(a[1] * b[2], a[2] * b[1])

\* a * b for an integer factor i
FScale(i, a) == IF IsFinite(a) THEN Rat(i * a[1], a[2]) ELSE <<Sign(i) * a[1], 0>>

\* 0.5 * a
FHalf(a) == IF IsFinite(a) THEN Rat(a[1], 2 * a[2]) ELSE a

\* a > b, b finite; every comparison with NaN is false
FGt(a, b) ==
    IF IsFinite(a) THEN a[1] * b[2] > b[1] * a[2] ELSE a[1] = 1

\* a < b, b finite
FLt(a, b) ==
    IF IsFinite(a) THEN a[1] * b[2] < b[1] * a[2] ELSE a[1] = -1

\* a >= b, b finite
FGe(a, b) ==
    IF IsFinite(a) THEN a[1] * b[2] >= b[1] * a[2] ELSE a[1] = 1

\* a <= b, b finite
FLe(a, b) ==
    IF IsFinite(a) THEN a[1] * b[2] <= b[1] * a[2] ELSE a[1] = -1

\* ------------------------------------------------------------------------
\* state

VARIABLES
    \* normalize: the shared array, the calibration frames, the cutoff
    data, data_white, data_dark, cutoff,
    \* the volume before the correction run
    orig,
    \* per worker: its partition, its place in the code, its loop position,
    \* the right-hand side it has computed, the mask data > cutoff it has taken
    ind, pc, k, tmp, over,
    \* optimize_center: the arguments, the reconstruction held by recon,
    \* the histogram range, the range the last _costFunc call binned against
    phase, center_init, tol, mask, ratio, data_recon, hist_min, hist_max, used,
    \* calls of recon.reconstruct and of _costFunc, the last candidate, the
    \* minimizer's best vertex, the returned res.x
    nrecon, fcalls, cand, best, result,
    \* centres at which the reconstructor failed, the exception raised
    failed, error

nvars == <<data, data_white, data_dark, cutoff, orig, ind, pc, k, tmp, over>>

ovars == <<phase, center_init, tol, mask, ratio, data_recon, hist_min, hist_max,
           used, nrecon, fcalls, cand, best, result, failed>>

vars == <<nvars, ovars, error>>

NoError == <<"none", {}>>

\* ------------------------------------------------------------------------
\* normalize

RECURSIVE SeqOf(_)
\* the indices of a partition in ascending order
SeqOf(S) ==
    IF S = {} THEN <<>>
    ELSE LET m == CHOOSE x \in S : \A y \in S : x <= y
         IN  <<m>> \o SeqOf(S \ {m})

\* the partitions handed to the workers: disjoint, covering the index range
Partitions == {[w \in Workers |-> SeqOf({m \in Proj : owner[m] = w})] :
                  owner \in [Proj -> Workers]}

Range(s) == {s[i] : i \in 1 .. Len(s)}

ZeroRow == [p \in Pixels |-> Flt(0)]

\* np.divide(data[m, :, :] - data_dark, data_white - data_dark) with data[m, :, :] = row
DivideRowNoDark(row, white, dark) ==
    [p \in Pixels |-> FDiv(row[p], FSub(white[p], dark[p]))]

DivideRow(row, white, dark) ==
    [p \in Pixels |-> FDiv(FSub(row[p], dark[p]), FSub(white[p], dark[p]))]

\* data > cutoff, over the whole shared array
OverCutoff(d, c) == {<<m, p>> \in Proj \X Pixels : FGt(d[m][p], c)}

\* data[msk] = cutoff
ClampAt(d, msk, c) ==
    [m \in Proj |-> [p \in Pixels |-> IF <<m, p>> \in msk THEN c ELSE d[m][p]]]

OptimizeIdle ==
    /\ phase = "IDLE"
    /\ center_init = 0 /\ tol = 0 /\ mask = FALSE /\ ratio = 0
    /\ data_recon = <<>> /\ hist_min = {} /\ hist_max = {} /\ used = <<>>
    /\ nrecon = 0 /\ fcalls = 0 /\ cand = 0 /\ best = 0 /\ result = {}
    /\ failed = {}

InitN ==
    /\ data \in [Proj -> [Pixels -> {Flt(v) : v \in DataVals}]]
    /\ orig = data
    /\ \E cal \in [Pixels -> Calibs] :
          /\ data_white = [p \in Pixels |-> Flt(cal[p][1])]
          /\ data_dark = [p \in Pixels |-> Flt(cal[p][2])]
    /\ cutoff \in {{}} \cup {{Flt(c)} : c \in Cutoffs}
    /\ ind \in Partitions
    /\ pc = [w \in Workers |-> "loop"]
    /\ k = [w \in Workers |-> 1]
    /\ tmp = [w \in Workers |-> ZeroRow]
    /\ over = [w \in Workers |-> {}]
    /\ error = NoError
    /\ OptimizeIdle

\* The workers share data without a lock.  numpy evaluates the right-hand
\* side of an assignment into a temporary before it stores it, so a worker's
\* read of the array and its later write are separate steps that the other
\* workers' steps may fall between; each read and each write of a slab is
\* taken as one step.

\* the right-hand side of the assignment of lines 68-69 is evaluated
Divide(w) ==
    /\ pc[w] = "loop"
    /\ k[w] <= Len(ind[w])
    /\ tmp' = [tmp EXCEPT ![w] = DivideRow(data[ind[w][k[w]]], data_white, data_dark)]
    /\ pc' = [pc EXCEPT ![w] = "store"]
    /\ UNCHANGED <<data, data_white, data_dark, cutoff, orig, ind, k, over, ovars, error>>

\* it is stored into data[m, :, :]
Store(w) ==
    /\ pc[w] = "store"
    /\ data' = [data EXCEPT ![ind[w][k[w]]] = tmp[w]]
    /\ tmp' = [tmp EXCEPT ![w] = ZeroRow]
    /\ k' = [k EXCEPT ![w] = k[w] + 1]
    /\ pc' = [pc EXCEPT ![w] = "loop"]
    /\ UNCHANGED <<data_white, data_dark, cutoff, orig, ind, over, ovars, error>>

\* the loop is over and a cutoff is set: the mask data > cutoff is taken
ClampMask(w) ==
    /\ pc[w] = "loop"
    /\ k[w] > Len(ind[w])
    /\ cutoff # {}
    /\ \E c \in cutoff : over' = [over EXCEPT ![w] = OverCutoff(data, c)]
    /\ pc' = [pc EXCEPT ![w] = "clamp"]
    /\ UNCHANGED <<data, data_white, data_dark, cutoff, orig, ind, k, tmp, ovars, error>>

\* data[data > cutoff] = cutoff
ClampStore(w) ==
    /\ pc[w] = "clamp"
    /\ \E c \in cutoff : data' = ClampAt(data, over[w], c)
    /\ over' = [over EXCEPT ![w] = {}]
    /\ pc' = [pc EXCEPT ![w] = "done"]
    /\ UNCHANGED <<data_white, data_dark, cutoff, orig, ind, k, tmp, ovars, error>>

\* the loop is over and no cutoff is set: the worker returns
Return(w) ==
    /\ pc[w] = "loop"
    /\ k[w] > Len(ind[w])
    /\ cutoff = {}
    /\ pc' = [pc EXCEPT ![w] = "done"]
    /\ UNCHANGED <<data, data_white, data_dark, cutoff, orig, ind, k, tmp, over, ovars, error>>

NextN ==
    \/ \E w \in Workers : Divide(w)
    \/ \E w \in Workers : Store(w)
    \/ \E w \in Workers : ClampMask(w)
    \/ \E w \in Workers : ClampStore(w)
    \/ \E w \in Workers : Return(w)

SpecN == InitN /\ [][NextN]_vars

\* ------------------------------------------------------------------------
\* optimize_center

\* rad = data.shape[2]/2, an integer division
rad == ImgEdge \div 2

\* np.ogrid[-rad:rad, -rad:rad]; a pixel is <<y, x>>
Pix2D == ((-rad) .. (rad - 1)) \X ((-rad) .. (rad - 1))

NaN == <<0, 0>>

NoImage == [q \in Pix2D |-> Flt(0)]

NaNImage == [q \in Pix2D |-> NaN]

\* what a call of recon.reconstruct can do: leave an image in
\* recon.data_recon, leave invalid (non-finite) data there, or raise
ReconResults ==
    {<<"ok", img>> : img \in [Pix2D -> {Flt(v) : v \in PixVals}]}
        \cup {<<"invalid", NaNImage>>, <<"raise", NoImage>>}

\* msk = x*x + y*y > ratio*ratio*rad*rad
Msk(r) == {q \in Pix2D : q[2] * q[2] + q[1] * q[1] > r * r * rad * rad}

\* if mask is True: recon.data_recon[0, msk] = 0
ApplyMask(img, mk, r) ==
    IF mk THEN [q \in Pix2D |-> IF q \in Msk(r) THEN Flt(0) ELSE img[q]] ELSE img

\* np.min, which propagates NaN
ImgMin(img) ==
    IF \E q \in Pix2D : IsNaN(img[q]) THEN NaN
    ELSE CHOOSE v \in {img[q] : q \in Pix2D} : \A q \in Pix2D : FLe(v, img[q])

\* np.max, which propagates NaN
ImgMax(img) ==
    IF \E q \in Pix2D : IsNaN(img[q]) THEN NaN
    ELSE CHOOSE v \in {img[q] : q \in Pix2D} : \A q \in Pix2D : FGe(v, img[q])

HistMinDoubled(m) == FScale(2, m)

\* lines 92-96
HistMin(m) ==
    IF FLt(m, Flt(0)) THEN FScale(2, m)
    ELSE IF FGe(m, Flt(0)) THEN FHalf(m)
    ELSE m

\* lines 98-102
HistMax(m) ==
    IF FLt(m, Flt(0)) THEN FHalf(m)
    ELSE IF FGe(m, Flt(0)) THEN FScale(2, m)
    ELSE m

CostRangeFromRecon(hmin, hmax, img) == <<HistMin(ImgMin(img)), HistMax(ImgMax(img))>>

\* the range= argument of np.histogram in _costFunc: its hist_min and
\* hist_max parameters, which minimize passes on from args
CostRange(hmin, hmax, img) == <<hmin, hmax>>

ExitStatusNoBudget(n) == IF n >= MaxFev THEN "SEARCHING" ELSE "CONVERGED"

\* how the minimizer's loop ended: out of function evaluations, or within
\* the tolerance
ExitStatus(n) == IF n >= MaxFev THEN "BUDGET_EXHAUSTED" ELSE "CONVERGED"

NormalizeIdle ==
    /\ data = [m \in Proj |-> ZeroRow] /\ orig = [m \in Proj |-> ZeroRow]
    /\ data_white = ZeroRow /\ data_dark = ZeroRow /\ cutoff = {}
    /\ ind = [w \in Workers |-> <<>>]
    /\ pc = [w \in Workers |-> "idle"]
    /\ k = [w \in Workers |-> 1]
    /\ tmp = [w \in Workers |-> ZeroRow]
    /\ over = [w \in Workers |-> {}]

InitO ==
    /\ phase = "INIT"
    /\ center_init \in Centers
    /\ tol \in Tols
    /\ mask \in BOOLEAN
    /\ ratio \in Ratios
    /\ data_recon = NoImage
    /\ hist_min = Flt(0) /\ hist_max = Flt(0) /\ used = <<>>
    /\ nrecon = 0 /\ fcalls = 0 /\ cand = 0 /\ best = 0 /\ result = {}
    /\ failed = {}
    /\ error = NoError
    /\ NormalizeIdle

\* lines 80-102: the initial reconstruction, the mask, the histogram range
InitialRecon ==
    /\ phase = "INIT"
    /\ nrecon' = nrecon + 1
    /\ \E r \in ReconResults :
          IF r[1] = "raise"
          THEN /\ phase' = "FAILED"
               /\ error' = <<"ReconstructorError", {}>>
               /\ failed' = failed \cup {center_init}
               /\ UNCHANGED <<data_recon, hist_min, hist_max>>
          ELSE /\ data_recon' = ApplyMask(r[2], mask, ratio)
               /\ hist_min' = HistMin(ImgMin(data_recon'))
               /\ hist_max' = HistMax(ImgMax(data_recon'))
               /\ phase' = "SEARCHING"
               /\ failed' = IF r[1] = "invalid" THEN failed \cup {center_init} ELSE failed
               /\ UNCHANGED error
    /\ UNCHANGED <<center_init, tol, mask, ratio, used, fcalls, cand, best, result, nvars>>

\* the minimizer proposes a candidate (first center_init itself) and calls
\* _costFunc, lines 116-135; the score only steers the minimizer's choices,
\* which are nondeterministic here
CostFunc ==
    /\ phase = "SEARCHING"
    /\ fcalls < MaxFev
    /\ nrecon' = nrecon + 1
    /\ \E c \in (IF fcalls = 0 THEN {center_init} ELSE Centers) :
       \E r \in ReconResults :
          IF r[1] = "raise"
          THEN /\ phase' = "FAILED"
               /\ error' = <<"ReconstructorError", {}>>
               /\ failed' = failed \cup {c}
               /\ UNCHANGED <<data_recon, used, fcalls, cand, best>>
          ELSE /\ data_recon' = ApplyMask(r[2], mask, ratio)
               /\ used' = CostRange(hist_min, hist_max, data_recon')
               /\ fcalls' = fcalls + 1
               /\ cand' = c
               /\ best' \in (IF fcalls = 0 THEN {c} ELSE {best, c})
               /\ failed' = IF r[1] = "invalid" THEN failed \cup {c} ELSE failed
               /\ UNCHANGED <<phase, error>>
    /\ UNCHANGED <<center_init, tol, mask, ratio, hist_min, hist_max, result, nvars>>

\* minimize returns and res.x is returned, lines 105-112: the budget is
\* spent, or the simplex (two vertices) is within tol
MinimizeReturn ==
    /\ phase = "SEARCHING"
    /\ fcalls >= MaxFev \/ (fcalls >= 2 /\ tol >= 0)
    /\ phase' = ExitStatus(fcalls)
    /\ result' = {best}
    /\ UNCHANGED <<center_init, tol, mask, ratio, data_recon, hist_min, hist_max,
                   used, nrecon, fcalls, cand, best, failed, error, nvars>>

NextO ==
    \/ InitialRecon
    \/ CostFunc
    \/ MinimizeReturn

SpecO == InitO /\ [][NextO]_vars

\* every call made by optimize_center returns or raises
LiveSpecO == SpecO /\ WF_vars(NextO)

\* ------------------------------------------------------------------------
\* properties of the corrector

AllDone == \A w \in Workers : pc[w] = "done"

\* every worker was handed at least one projection
NonEmptyPartitions == \A w \in Workers : Len(ind[w]) > 0

\* white != dark at every pixel
NonDegenerate == \A p \in Pixels : data_white[p] # data_dark[p]

\* (orig - dark) / (white - dark) of one element, on integers
Normalized(m, p) ==
    Rat(orig[m][p][1] - data_dark[p][1], data_white[p][1] - data_dark[p][1])

\* the volume a single sequential pass over all indices leaves: every
\* projection normalized, then clamped to the cutoff when one is set
Sequential ==
    [m \in Proj |-> [p \in Pixels |->
        IF cutoff # {} /\ \E c \in cutoff : FGt(Normalized(m, p), c)
        THEN CHOOSE c \in cutoff : TRUE
        ELSE Normalized(m, p)]]

\* C1: for every disjoint covering partitioning and every interleaving of
\* the workers, with or without a cutoff, the final volume equals the one
\* obtained by correcting the same indices sequentially.
C1_ConcurrentEqualsSequential ==
    (AllDone /\ NonDegenerate /\ NonEmptyPartitions) => data = Sequential

\* C2: a step of a worker writes only projections of its own partition,
\* whether or not a cutoff is set.
C2_WritesOwnPartitionOnly ==
    [][\A w \in Workers :
         (NonEmptyPartitions /\ pc'[w] # pc[w]) =>
            \A m \in Proj : m \notin Range(ind[w]) => data'[m] = data[m]]_vars

\* C3: with a cutoff set, once all workers are done every value is <= cutoff
\* and every element whose normalized value is <= cutoff holds that value.
C3_ClampOneSided ==
    (AllDone /\ NonDegenerate /\ NonEmptyPartitions /\ cutoff # {}) =>
        \A c \in cutoff : \A m \in Proj : \A p \in Pixels :
            /\ FLe(data[m][p], c)
            /\ FLe(Normalized(m, p), c) => data[m][p] = Normalized(m, p)

\* C4: without a cutoff and with white != dark everywhere, once all workers
\* are done every element equals (orig - dark) / (white - dark); with white
\* all 2 and dark all 0 that is orig / 2.
C4_NormalizedOnce ==
    (AllDone /\ NonDegenerate /\ cutoff = {}) =>
        \A m \in Proj : \A p \in Pixels :
            /\ data[m][p] = Normalized(m, p)
            /\ (\A q \in Pixels : data_white[q] = Flt(2) /\ data_dark[q] = Flt(0))
                  => data[m][p] = Rat(orig[m][p][1], 2)

\* a finished run without cutoff in which both workers normalized a
\* projection, one pixel calibrated with a non-zero dark value
C4_Witness ==
    /\ AllDone /\ NonDegenerate /\ cutoff = {}
    /\ \A w \in Workers : Len(ind[w]) > 0
    /\ \E p \in Pixels : data_dark[p] # Flt(0)
    /\ \E m \in Proj : \E p \in Pixels : data[m][p] # orig[m][p]

\* C5: with white = dark at some pixel the run fails with
\* CalibrationDegenerate; it never completes leaving a non-finite value.
C5_DegenerateCalibrationFails ==
    (AllDone /\ ~NonDegenerate) =>
        /\ error[1] = "CalibrationDegenerate"
        /\ \A m \in Proj : \A p \in Pixels : IsFinite(data[m][p])

\* ------------------------------------------------------------------------
\* properties of the centre search

\* tolerance <= 0, or a mask ratio outside (0, 1]
InvalidConfig == tol <= 0 \/ ratio <= 0 \/ ratio > 1

\* C6: a call with an invalid configuration is rejected with
\* InvalidParameter before any work begins: no reconstruction is invoked
\* and no image is masked.
C6_InvalidConfigRejected ==
    InvalidConfig =>
        /\ nrecon = 0 /\ fcalls = 0
        /\ data_recon = NoImage
        /\ phase # "INIT" => error[1] = "InvalidParameter"

\* C7: once computed from the initial reconstruction the histogram range
\* never changes, and every _costFunc call bins against exactly that range.
C7_RangeFrozen ==
    [][phase # "INIT" =>
          /\ hist_min' = hist_min
          /\ hist_max' = hist_max
          /\ fcalls' # fcalls => used' = <<hist_min, hist_max>>]_vars

\* two evaluations done, the last at another centre than the initial one and
\* on a reconstruction whose own extrema would give a different range
C7_Witness ==
    /\ fcalls >= 2
    /\ cand # center_init
    /\ used = <<hist_min, hist_max>>
    /\ <<HistMin(ImgMin(data_recon)), HistMax(ImgMax(data_recon))>> # used
    /\ failed = {}

\* the least and the greatest pixel of a valid reconstruction, as integers
PixMin(img) == CHOOSE v \in {img[q][1] : q \in Pix2D} : \A q \in Pix2D : v <= img[q][1]

PixMax(img) == CHOOSE v \in {img[q][1] : q \in Pix2D} : \A q \in Pix2D : v >= img[q][1]

\* the initial, possibly masked, reconstruction is in recon.data_recon
AfterInit == phase = "SEARCHING" /\ fcalls = 0 /\ failed = {}

\* C8: hist_min = 2*min if min < 0 else 0.5*min, hist_max = 0.5*max if
\* max < 0 else 2*max, for the extrema of the initial (possibly masked)
\* reconstruction; min = -4, max = 10 gives -8 and 20.
C8_HistRange ==
    AfterInit =>
        LET lo == PixMin(data_recon)
            hi == PixMax(data_recon)
        IN  /\ hist_min = (IF lo < 0 THEN <<2 * lo, 1>> ELSE Rat(lo, 2))
            /\ hist_max = (IF hi < 0 THEN Rat(hi, 2) ELSE <<2 * hi, 1>>)
            /\ (lo = -4 /\ hi = 10) => (hist_min = <<-8, 1>> /\ hist_max = <<20, 1>>)

\* the range was derived from a reconstruction with min = -4 and max = 10
C8_Witness ==
    /\ AfterInit
    /\ PixMin(data_recon) = -4 /\ PixMax(data_recon) = 10
    /\ hist_min = <<-8, 1>> /\ hist_max = <<20, 1>>

\* C9: a failure of the reconstructor at a candidate centre aborts the
\* search with ReconstructionFailed reporting that centre; no score is
\* produced for the candidate, no further candidate is evaluated and no
\* centre is returned.
C9_ReconFailureAborts ==
    failed # {} =>
        /\ phase = "FAILED"
        /\ error = <<"ReconstructionFailed", failed>>
        /\ result = {}

Stopped == phase \in {"CONVERGED", "BUDGET_EXHAUSTED"}

\* C10: a run goes INIT -> SEARCHING -> CONVERGED or BUDGET_EXHAUSTED;
\* exactly one initial reconstruction and range measurement precede the
\* first objective evaluation; unless a reconstruction call raises, the
\* search eventually stops and then has returned a centre.
C10_Lifecycle ==
    /\ [][/\ phase = "INIT" => phase' \in {"INIT", "SEARCHING", "FAILED"}
          /\ phase = "SEARCHING" =>
                phase' \in {"SEARCHING", "CONVERGED", "BUDGET_EXHAUSTED", "FAILED"}
          /\ phase \in {"CONVERGED", "BUDGET_EXHAUSTED", "FAILED"} => phase' = phase
          /\ fcalls' # fcalls => (phase = "SEARCHING" /\ nrecon = fcalls + 1)]_vars
    /\ [](Stopped => result # {})
    /\ <>(Stopped \/ phase = "FAILED")

\* the budget was spent in a run whose configuration is valid
C10_Witness ==
    /\ phase = "BUDGET_EXHAUSTED"
    /\ fcalls = MaxFev /\ nrecon = MaxFev + 1
    /\ result # {} /\ failed = {} /\ ~InvalidConfig

====
